---- MODULE Spec2Model ----
(***************************************************************************)
(* Game of life on a toroidal field with a four-phase cell lifecycle and a *)
(* bounded ring of past generations (src/src/main.c, the draft with the    *)
(* History ring, lines 517-1068).                                          *)
(*                                                                         *)
(* Number representation.  TLC integers are 32-bit two's complement and    *)
(* arithmetic that leaves that range is an error, so a C value of type u32 *)
(* is represented by the integer that has the same 32-bit pattern: the u32 *)
(* value 4294967295 is the integer -1.  Addition and multiplication of     *)
(* patterns coincide with the integer operations as long as the result     *)
(* stays in range, which the bounds below guarantee; only the unsigned     *)
(* comparison differs from the integer one (u32lt).                        *)
(***************************************************************************)
EXTENDS Integers, Sequences, FiniteSets, TLC

VARIABLES
  field,      \* Field: [stride, current, next]
  history,    \* History: [size, elem_size, start, end, data]
  status,     \* "running", "aborted" once assertf() has called abort(), or
              \* "crashed" once an access outside an object has faulted
  call,       \* the last operation applied: its arguments, what it returned and,
              \* for fieldUpdate, the current buffer it started from
  pushed,     \* log: the buffers handed to historyPush, oldest first
  edits,      \* number of fieldCellSet calls so far
  ticks,      \* number of fieldUpdate calls so far
  everAlive,  \* log: indices of the cells that have held ALIVE
  game,       \* Game: [pause, selected, x, y, seconds_per_tick, last_tick_at]
  clock,      \* the value GetTime() returned in the last frame
  heap,       \* for each allocation, how many times it has been released, and
              \* whether one was accessed after its release
  pc,         \* where gameOfLife is: "loop", or "returned"
  inputs,     \* number of input events the frames have seen so far
  profile     \* the profiling timers: [nprofiles, timers], with the clock of
              \* mstime(), the number of calls so far and, as a log, the start
              \* times of the unmatched beginTimeProfile calls, oldest first

vars == <<field, history, status, call, pushed, edits, ticks, everAlive,
          game, clock, heap, pc, inputs, profile>>

\* The variables of the game controller and of the host loop.
gameVars == <<game, clock, heap, pc, inputs>>

----------------------------------------------------------------------------
(* Bounds of the model *)

\* Largest side of a field in SpecIndex, SpecRule and SpecField.
MaxStride == 3
\* Coordinates are shifted by up to MaxWrap whole strides in SpecIndex.
MaxWrap == 1
\* fieldCellSet and fieldUpdate calls, taken together, per run of SpecField.
MaxSteps == 4
\* Largest side of a field in SpecHistory.
MaxHistStride == 2
\* Largest capacity (size) of a History in SpecHistory.
MaxCapacity == 2
\* historyPush calls per run of SpecHistory.
MaxPushes == 3
\* fieldCellSet calls per run of SpecHistory.
MaxHistEdits == 2
\* Largest side of a field in SpecGame.
MaxGameStride == 2
\* Input events per run of SpecGame: a key pressed, the mouse used (over
\* the field, or its left button pressed), time passed since the last frame,
\* the window asked to close; a frame that sees none of them counts as one.
MaxInputs == 3
\* Largest side of a field in SpecDraft.
\* Largest stride of the field of a game that has run for a long time.
MaxLongStride == 1
\* Inputs that the frames of a game that has run for a long time receive.
MaxLongInputs == 3
\* Largest capacity of a ring whose cursors are about to wrap, next to the
\* capacity that gameCreate asks for.
MaxWrapCapacity == 3
\* Pushes that are left before end wraps past 2^32, at most.
MaxBeforeWrap == 2
\* Pushes into a ring whose cursors are about to wrap.
MaxWrapPushes == 3
\* Largest stride of the field of a game whose mouse is followed by the pixel.
MaxPointerStride == 2
\* Inputs that the frames of such a game receive.
MaxPointerInputs == 2
MaxDraftStride == 1
\* Largest seconds_per_tick given to gameCreate in SpecDraft, in hundredths
\* of a second.
MaxDraftInterval == 2

----------------------------------------------------------------------------
(* State enum, main.c:555-560 *)

EMPTY == 0
DEAD == 2
DIYING == 3
ALIVE == 4

States == {EMPTY, DEAD, DIYING, ALIVE}

----------------------------------------------------------------------------
(* C arithmetic *)

\* a < b on two u32 values (given by their 32-bit patterns).
u32lt(a, b) == IF (a < 0) = (b < 0) THEN a < b ELSE b < 0

\* a + b on two u32 values: the sum modulo 2^32.
u32add(a, b) ==
  IF a >= 0 /\ b >= 0 /\ a > 2147483647 - b
  THEN ((a - 2147483647 - 1) + b) - 2147483647 - 1
  ELSE IF a < 0 /\ b < 0 /\ a < (0 - 2147483647 - 1) - b
       THEN ((a + 2147483647 + 1) + b) + 2147483647 + 1
       ELSE a + b

\* a - b on two u32 values: the difference modulo 2^32.
u32sub(a, b) ==
  IF b = 0 - 2147483647 - 1 THEN u32add(a, b) ELSE u32add(a, 0 - b)

\* a % n on a u32 value a and a u32 value n with 0 < n < 2^31.
u32mod(a, n) ==
  IF a >= 0
  THEN a % n
  ELSE LET m31 == ((2147483647 % n) + 1) % n     \* 2^31 mod n
           m32 == (m31 + m31) % n                \* 2^32 mod n
       IN  ((a % n) + m32) % n

\* The C operator %, which truncates towards zero: the result has the sign
\* of the dividend.  b > 0.
CRem(a, b) == IF a >= 0 THEN a % b ELSE 0 - ((0 - a) % b)

\* A modi32 that wraps with the plain operator % only.
modi32_Truncating(a, b) == CRem(a, b)

modi32(a, b) == IF a < 0 THEN CRem(b + a, b) ELSE CRem(a, b)

----------------------------------------------------------------------------
(* Field *)

Zeroed(n) == [i \in 0..(n - 1) |-> EMPTY]

\* calloc of stride*stride cells for both buffers; no check of stride.
fieldInit(stride) ==
  [stride |-> stride, current |-> Zeroed(stride * stride), next |-> Zeroed(stride * stride)]

\* u32 idx = stride * y + x, after both coordinates went through modi32.
cellIndex(stride, x, y) == stride * modi32(y, stride) + modi32(x, stride)

fieldCellIndex(f, x, y) == cellIndex(f.stride, x, y)

\* The condition of the assertf in fieldCellIndex.
fieldCellIndexInBounds(f, x, y) == u32lt(fieldCellIndex(f, x, y), f.stride * f.stride)

fieldCellSet(f, x, y, state) == [f EXCEPT !.current[fieldCellIndex(f, x, y)] = state]

fieldCellState(f, x, y) == f.current[fieldCellIndex(f, x, y)]

fieldCellIsAlive(f, x, y) == fieldCellState(f, x, y) = ALIVE

\* A C bool added to a u32.
BoolToInt(b) == IF b THEN 1 ELSE 0

\* fieldNext, the sum alive_neighbors: one fieldCellIsAlive for each of the
\* eight positions around (x, y).
fieldNextAliveNeighbors(f, x, y) ==
    BoolToInt(fieldCellIsAlive(f, x,     y + 1))   \* S
  + BoolToInt(fieldCellIsAlive(f, x - 1, y + 1))   \* SW
  + BoolToInt(fieldCellIsAlive(f, x - 1, y    ))   \* W
  + BoolToInt(fieldCellIsAlive(f, x - 1, y - 1))   \* NW
  + BoolToInt(fieldCellIsAlive(f, x,     y - 1))   \* N
  + BoolToInt(fieldCellIsAlive(f, x + 1, y - 1))   \* NE
  + BoolToInt(fieldCellIsAlive(f, x + 1, y    ))   \* E
  + BoolToInt(fieldCellIsAlive(f, x + 1, y + 1))   \* SE


\* fieldNext whose switch has no case for DEAD: a Dead cell that is not
\* revived falls through to the default and becomes Empty.
fieldNext_DeadToEmpty(f, x, y) ==
  LET alive_neighbors ==
          BoolToInt(fieldCellIsAlive(f, x,     y + 1))
        + BoolToInt(fieldCellIsAlive(f, x - 1, y + 1))
        + BoolToInt(fieldCellIsAlive(f, x - 1, y    ))
        + BoolToInt(fieldCellIsAlive(f, x - 1, y - 1))
        + BoolToInt(fieldCellIsAlive(f, x,     y - 1))
        + BoolToInt(fieldCellIsAlive(f, x + 1, y - 1))
        + BoolToInt(fieldCellIsAlive(f, x + 1, y    ))
        + BoolToInt(fieldCellIsAlive(f, x + 1, y + 1))
      state == fieldCellState(f, x, y)
  IN  IF alive_neighbors = 3 \/ (alive_neighbors = 2 /\ state = ALIVE)
      THEN ALIVE
      ELSE CASE state = ALIVE  -> DIYING
             [] state = DIYING -> DEAD
             [] OTHER          -> EMPTY

\* fieldNext that keeps any cell with 2 alive neighbours as it is and lets
\* only a cell with 3 alive neighbours be born.
fieldNext_Classic(f, x, y) ==
  LET alive_neighbors ==
          BoolToInt(fieldCellIsAlive(f, x,     y + 1))
        + BoolToInt(fieldCellIsAlive(f, x - 1, y + 1))
        + BoolToInt(fieldCellIsAlive(f, x - 1, y    ))
        + BoolToInt(fieldCellIsAlive(f, x - 1, y - 1))
        + BoolToInt(fieldCellIsAlive(f, x,     y - 1))
        + BoolToInt(fieldCellIsAlive(f, x + 1, y - 1))
        + BoolToInt(fieldCellIsAlive(f, x + 1, y    ))
        + BoolToInt(fieldCellIsAlive(f, x + 1, y + 1))
      state == fieldCellState(f, x, y)
  IN  IF alive_neighbors = 3 \/ (alive_neighbors = 2 /\ state # EMPTY)
      THEN ALIVE
      ELSE CASE state = ALIVE  -> DIYING
             [] state = DIYING -> DEAD
             [] state = DEAD   -> DEAD
             [] OTHER          -> EMPTY

\* fieldNext that moves a cell down the lifecycle by decrementing its state.
fieldNext_Decrement(f, x, y) ==
  LET alive_neighbors ==
          BoolToInt(fieldCellIsAlive(f, x,     y + 1))
        + BoolToInt(fieldCellIsAlive(f, x - 1, y + 1))
        + BoolToInt(fieldCellIsAlive(f, x - 1, y    ))
        + BoolToInt(fieldCellIsAlive(f, x - 1, y - 1))
        + BoolToInt(fieldCellIsAlive(f, x,     y - 1))
        + BoolToInt(fieldCellIsAlive(f, x + 1, y - 1))
        + BoolToInt(fieldCellIsAlive(f, x + 1, y    ))
        + BoolToInt(fieldCellIsAlive(f, x + 1, y + 1))
      state == fieldCellState(f, x, y)
  IN  IF alive_neighbors = 3 \/ (alive_neighbors = 2 /\ state = ALIVE)
      THEN ALIVE
      ELSE IF state = EMPTY THEN EMPTY ELSE state - 1

\* fieldNext that turns on every cell with 2 alive neighbours.
fieldNext_Revive(f, x, y) ==
  LET alive_neighbors ==
          BoolToInt(fieldCellIsAlive(f, x,     y + 1))
        + BoolToInt(fieldCellIsAlive(f, x - 1, y + 1))
        + BoolToInt(fieldCellIsAlive(f, x - 1, y    ))
        + BoolToInt(fieldCellIsAlive(f, x - 1, y - 1))
        + BoolToInt(fieldCellIsAlive(f, x,     y - 1))
        + BoolToInt(fieldCellIsAlive(f, x + 1, y - 1))
        + BoolToInt(fieldCellIsAlive(f, x + 1, y    ))
        + BoolToInt(fieldCellIsAlive(f, x + 1, y + 1))
      state == fieldCellState(f, x, y)
  IN  IF alive_neighbors = 3 \/ alive_neighbors = 2
      THEN ALIVE
      ELSE CASE state = ALIVE  -> DIYING
             [] state = DIYING -> DEAD
             [] state = DEAD   -> DEAD
             [] OTHER          -> EMPTY

\* State of the cell (x, y) at the next tick, read from f.current.
fieldNext(f, x, y) ==
  LET alive_neighbors == fieldNextAliveNeighbors(f, x, y)
      state == fieldCellState(f, x, y)
  IN  IF alive_neighbors = 3 \/ (alive_neighbors = 2 /\ state = ALIVE)
      THEN ALIVE
      ELSE CASE state = ALIVE  -> DIYING
             [] state = DIYING -> DEAD
             [] state = DEAD   -> DEAD
             [] OTHER          -> EMPTY

\* The nine fieldCellIndex assertions that one fieldNext(f, x, y) passes.
fieldNextInBounds(f, x, y) ==
  \A dx \in {-1, 0, 1} : \A dy \in {-1, 0, 1} : fieldCellIndexInBounds(f, x + dx, y + dy)

\* The loop of fieldUpdate writing each result straight into f.current.
RECURSIVE fieldUpdateLoop_InPlace(_, _)
fieldUpdateLoop_InPlace(f, n) ==
  IF n >= f.stride * f.stride
  THEN [f EXCEPT !.next = f.current]
  ELSE LET x     == n % f.stride
           y     == n \div f.stride
           index == fieldCellIndex(f, x, y)
       IN  fieldUpdateLoop_InPlace([f EXCEPT !.current[index] = fieldNext(f, x, y)], n + 1)

\* The two nested loops of fieldUpdate from the n-th cell on, in the order
\* the loops visit the cells (y outer, x inner): next[index] is written,
\* current is only read.
RECURSIVE fieldUpdateLoop(_, _)
fieldUpdateLoop(f, n) ==
  IF n >= f.stride * f.stride
  THEN f
  ELSE LET x     == n % f.stride
           y     == n \div f.stride
           index == fieldCellIndex(f, x, y)
       IN  fieldUpdateLoop([f EXCEPT !.next[index] = fieldNext(f, x, y)], n + 1)

\* fieldUpdate: the loops, then memcpy(current, next, stride*stride).
fieldUpdate(f) == LET g == fieldUpdateLoop(f, 0) IN [g EXCEPT !.current = g.next]

\* All assertions met by one fieldUpdate hold.
fieldUpdateInBounds(f) ==
  \A x \in 0..(f.stride - 1) : \A y \in 0..(f.stride - 1) : fieldNextInBounds(f, x, y)
----------------------------------------------------------------------------
(* History *)

\* A byte of the block returned by gmalloc that nothing has written yet.  Its
\* value is indeterminate; it lies outside the range of u8 so that a read of
\* it can never pass for a cell state.
Indeterminate == 256

\* A pointer: NULL, or an offset into history->data.
NullPtr == [base |-> "null", off |-> 0]
DataPtr(off) == [base |-> "data", off |-> off]

historyCreate(elem_size, size) ==
  [size      |-> size,
   elem_size |-> elem_size,
   start     |-> 0,
   end       |-> 0,
   data      |-> [i \in 0..(elem_size * size - 1) |-> Indeterminate]]

\* historyDataIndex that takes the logical index for the physical one, as
\* long as it is inside the block.
historyDataIndex_NoWrap(h, index) == IF u32lt(index, h.size) THEN index ELSE h.size - 1

historyDataIndex(h, index) == u32mod(index, h.size)

\* An assertion that only asks for the field to be large enough to copy from.
historyPushMatches_FitsField(h, f) == h.elem_size <= f.stride * f.stride

\* The condition of the assertf in historyPush.
historyPushMatches(h, f) == h.elem_size = f.stride * f.stride

\* historyPush whose memcpy goes to the slot of start.
historyPush_WriteAtStart(h, f) ==
  LET write == historyDataIndex(h, h.start)
      base  == write * h.elem_size
      end   == u32add(h.end, 1)
      diff  == u32sub(end, h.start)
  IN  [h EXCEPT !.data  = [i \in DOMAIN h.data |->
                             IF i >= base /\ i < base + h.elem_size
                             THEN f.current[i - base] ELSE h.data[i]],
                !.end   = end,
                !.start = IF u32lt(h.size, diff)
                          THEN u32add(h.start, u32sub(diff, h.size))
                          ELSE h.start]

\* historyPush that never moves start.
historyPush_NoEvict(h, f) ==
  LET write == historyDataIndex(h, h.end)
      base  == write * h.elem_size
  IN  [h EXCEPT !.data = [i \in DOMAIN h.data |->
                            IF i >= base /\ i < base + h.elem_size
                            THEN f.current[i - base] ELSE h.data[i]],
                !.end  = u32add(h.end, 1)]

\* historyPush past its assertion: memcpy of elem_size bytes of f.current
\* into the slot of end, end++, then start moves up by what end - start
\* exceeds size.
historyPush(h, f) ==
  LET write == historyDataIndex(h, h.end)
      base  == write * h.elem_size
      end   == u32add(h.end, 1)
      diff  == u32sub(end, h.start)
  IN  [h EXCEPT !.data  = [i \in DOMAIN h.data |->
                             IF i >= base /\ i < base + h.elem_size
                             THEN f.current[i - base] ELSE h.data[i]],
                !.end   = end,
                !.start = IF u32lt(h.size, diff)
                          THEN u32add(h.start, u32sub(diff, h.size))
                          ELSE h.start]

\* historyGetItem that resets the caller's Field when it finds nothing.
historyGetItem_ClearOnMiss(h, item, i) ==
  LET len == u32sub(h.end, h.start)
  IN  IF ~ u32lt(i, len)
      THEN [ret |-> FALSE, item |-> [item EXCEPT !.current = NullPtr, !.next = NullPtr]]
      ELSE LET data_index == historyDataIndex(h, u32add(h.start, i))
               ptr        == DataPtr(data_index * h.elem_size)
           IN  [ret |-> TRUE, item |-> [item EXCEPT !.current = ptr, !.next = ptr]]

\* historyGetItem that counts its index from the slot 0 of the block.
historyGetItem_FromSlotZero(h, item, i) ==
  LET len == u32sub(h.end, h.start)
  IN  IF ~ u32lt(i, len)
      THEN [ret |-> FALSE, item |-> item]
      ELSE LET ptr == DataPtr(historyDataIndex(h, i) * h.elem_size)
           IN  [ret |-> TRUE, item |-> [item EXCEPT !.current = ptr, !.next = ptr]]

\* historyGetItem(history, &item, i): the returned bool and the caller's
\* Field afterwards.  The Field's buffers become pointers into history->data.
historyGetItem(h, item, i) ==
  LET len == u32sub(h.end, h.start)
  IN  IF ~ u32lt(i, len)
      THEN [ret |-> FALSE, item |-> item]
      ELSE LET data_index == historyDataIndex(h, u32add(h.start, i))
               ptr        == DataPtr(data_index * h.elem_size)
           IN  [ret |-> TRUE, item |-> [item EXCEPT !.current = ptr, !.next = ptr]]

\* historySize that returns the capacity of the ring.
historySize_Capacity(h) == h.size

historySize(h) == u32sub(h.end, h.start)

\* The elem_size bytes that a pointer returned by historyGetItem points to.
ItemCells(h, ptr) == [j \in 0..(h.elem_size - 1) |-> h.data[ptr.off + j]]

\* The state in which no History has been created.
NoHistory == [size |-> 0, elem_size |-> 0, start |-> 0, end |-> 0, data |-> <<>>]
----------------------------------------------------------------------------
(* Game *)

\* Time (f64 seconds in the code) is counted in tenths of a second; the
\* values of GetTime() are whole tenths.

\* The seconds_per_tick that gameOfLife gives to gameCreate: 0.1 s.
SecondsPerTick == 1

\* Capacity of the History that gameCreate creates.
GameHistorySize == 200

\* The allocations of a game, none of them released.
Allocated == [current |-> 0, next |-> 0, data |-> 0, stale |-> FALSE]

\* An access to the buffers of the field and to the block of the history:
\* it is recorded when one of them has been released before.
heapAccess(hp) ==
  [hp EXCEPT !.stale = hp.stale \/ hp.current > 0 \/ hp.next > 0 \/ hp.data > 0]

\* fieldFree: free(current), free(next).
fieldFree(hp) == [hp EXCEPT !.current = hp.current + 1, !.next = hp.next + 1]

\* historyFree: gfree(data).
historyFree(hp) == [hp EXCEPT !.data = hp.data + 1]

\* The Game that gameCreate returns, without its field and its history; the
\* members the initialiser does not name are zero.
gameCreate(field_size, seconds_per_tick) ==
  [pause            |-> TRUE,
   selected         |-> FALSE,
   x                |-> 0,
   y                |-> 0,
   seconds_per_tick |-> seconds_per_tick,
   last_tick_at     |-> 0]

\* gameClose that releases the field only.
gameClose_FieldOnly(g, hp) ==
  [game |-> [g EXCEPT !.pause = TRUE], heap |-> fieldFree(hp)]

\* gameClose: pause, fieldFree, historyFree.
gameClose(g, hp) ==
  [game |-> [g EXCEPT !.pause = TRUE], heap |-> historyFree(fieldFree(hp))]

\* A toggle that always resumes the game.
gameUpdatePause_Resume(g, space) == [g EXCEPT !.pause = IF space THEN FALSE ELSE g.pause]

\* gameUpdate, toggle of pause: if (IsKeyPressed(KEY_SPACE)) pause = !pause.
gameUpdatePause(g, space) == [g EXCEPT !.pause = IF space THEN ~ g.pause ELSE g.pause]

\* A click that sends the cell through the lifecycle: Alive becomes Dying.
gameClick_Decay(f, x, y) ==
  LET alive == fieldCellIsAlive(f, x, y)
  IN  fieldCellSet(f, x, y, IF alive THEN DIYING ELSE ALIVE)

\* gameUpdate, left button pressed over the cell (x, y).
gameClick(f, x, y) ==
  LET alive == fieldCellIsAlive(f, x, y)
  IN  fieldCellSet(f, x, y, IF alive THEN DEAD ELSE ALIVE)

\* The branch on pause that lets the mouse edit and select whether the game
\* is paused or not.
gameUpdateEdit_WhileRunning(g, f, mouse, click) ==
  IF mouse.inside
  THEN IF click
       THEN [game  |-> [g EXCEPT !.selected = g.pause],
             field |-> gameClick(f, mouse.x, mouse.y)]
       ELSE [game  |-> [g EXCEPT !.x = mouse.x, !.y = mouse.y, !.selected = g.pause],
             field |-> f]
  ELSE [game |-> [g EXCEPT !.selected = g.pause /\ g.selected], field |-> f]

\* The branch on pause without its else: a running game keeps its selection.
gameUpdateEdit_KeepSelection(g, f, mouse, click) ==
  IF g.pause
  THEN IF mouse.inside
       THEN IF click
            THEN [game  |-> [g EXCEPT !.selected = TRUE],
                  field |-> gameClick(f, mouse.x, mouse.y)]
            ELSE [game  |-> [g EXCEPT !.x = mouse.x, !.y = mouse.y, !.selected = TRUE],
                  field |-> f]
       ELSE [game |-> g, field |-> f]
  ELSE [game |-> g, field |-> f]

\* gameUpdate, the branch on pause: while paused, the mouse over the
\* rectangle edits the cell under it or selects it; otherwise the selection
\* is dropped.  mouse is [inside, x, y]: the result of CheckCollisionPointRec
\* and the cell the position was converted to.
gameUpdateEdit(g, f, mouse, click) ==
  IF g.pause
  THEN IF mouse.inside
       THEN IF click
            THEN [game  |-> [g EXCEPT !.selected = TRUE],
                  field |-> gameClick(f, mouse.x, mouse.y)]
            ELSE [game  |-> [g EXCEPT !.x = mouse.x, !.y = mouse.y, !.selected = TRUE],
                  field |-> f]
       ELSE [game |-> g, field |-> f]
  ELSE [game |-> [g EXCEPT !.selected = FALSE], field |-> f]

\* The assertions of fieldCellIndex that the branch on pause passes.
gameUpdateEditInBounds(g, f, mouse, click) ==
  (g.pause /\ mouse.inside /\ click) => fieldCellIndexInBounds(f, mouse.x, mouse.y)

\* should_update that lets the time decide while the game is paused, too.
should_update_Timed(g, enter, time) ==
  (g.pause /\ enter) \/ ((time - g.last_tick_at) > g.seconds_per_tick)

\* should_update that ticks as soon as seconds_per_tick has passed.
should_update_AtInterval(g, enter, time) ==
  (g.pause /\ enter) \/ (~ g.pause /\ (time - g.last_tick_at) >= g.seconds_per_tick)

should_update(g, enter, time) ==
  (g.pause /\ enter) \/ (~ g.pause /\ (time - g.last_tick_at) > g.seconds_per_tick)

\* gameSaveHistoryState that pushes the buffer of the field itself, not a
\* copy of it: every snapshot stored so far shows the cells of the field.
gameSaveHistoryState_ByReference(h, f) ==
  LET h1 == historyPush(h, f)
  IN  [h1 EXCEPT !.data = [i \in DOMAIN h1.data |->
                             IF h1.data[i] = Indeterminate
                             THEN Indeterminate
                             ELSE f.current[i % h.elem_size]]]

gameSaveHistoryState(h, f) == historyPush(h, f)

\* A tick that makes up for the intervals that were missed: a second push and
\* a second generation when two intervals or more have passed.
gameUpdateTick_CatchUp(g, f, h, time) ==
  LET f1 == fieldUpdate(f)
      h1 == gameSaveHistoryState(h, f)
  IN  IF (time - g.last_tick_at) >= 2 * g.seconds_per_tick
      THEN [game    |-> [g EXCEPT !.last_tick_at = time],
            field   |-> fieldUpdate(f1),
            history |-> gameSaveHistoryState(h1, f1)]
      ELSE [game    |-> [g EXCEPT !.last_tick_at = time],
            field   |-> f1,
            history |-> h1]

\* The body of if (should_update) with its first two calls the other way
\* round: fieldUpdate, then gameSaveHistoryState.
gameUpdateTick_AdvanceFirst(g, f, h, time) ==
  [game    |-> [g EXCEPT !.last_tick_at = time],
   field   |-> fieldUpdate(f),
   history |-> gameSaveHistoryState(h, fieldUpdate(f))]

\* gameUpdate, the body of if (should_update): gameSaveHistoryState,
\* fieldUpdate, last_tick_at = time.
gameUpdateTick(g, f, h, time) ==
  [game    |-> [g EXCEPT !.last_tick_at = time],
   field   |-> fieldUpdate(f),
   history |-> gameSaveHistoryState(h, f)]

\* What gameUpdate leaves behind when it has come to the state t (a Game, a
\* field and a history): edit is the field as it was after the branch on
\* pause, set tells whether a cell was set, saved whether the history was
\* pushed, ticked whether fieldUpdate ran, and ok whether every assertion on
\* the way held.
gameUpdateResult(t, edit, set, saved, ticked, ok) ==
  [game |-> t.game, field |-> t.field, history |-> t.history, edit |-> edit,
   set |-> set, pushed |-> saved, ticked |-> ticked, ok |-> ok]

\* gameUpdate from the branch on pause on; g1 is the Game after the toggle.
gameUpdateFrom(g1, edit, f, h, enter, mouse, click, time) ==
  LET set == g1.pause /\ mouse.inside /\ click
  IN  IF ~ gameUpdateEditInBounds(g1, f, mouse, click)
      THEN gameUpdateResult([game |-> g1, field |-> f, history |-> h], f,
                            FALSE, FALSE, FALSE, FALSE)
      ELSE IF ~ should_update(edit.game, enter, time)
      THEN gameUpdateResult([game |-> edit.game, field |-> edit.field, history |-> h],
                            edit.field, set, FALSE, FALSE, TRUE)
      ELSE IF ~ historyPushMatches(h, edit.field)
      THEN gameUpdateResult([game |-> edit.game, field |-> edit.field, history |-> h],
                            edit.field, set, FALSE, FALSE, FALSE)
      ELSE IF ~ fieldUpdateInBounds(edit.field)
      THEN gameUpdateResult([game |-> edit.game, field |-> edit.field,
                             history |-> gameSaveHistoryState(h, edit.field)],
                            edit.field, set, TRUE, FALSE, FALSE)
      ELSE gameUpdateResult(gameUpdateTick(edit.game, edit.field, h, time),
                            edit.field, set, TRUE, TRUE, TRUE)

\* gameUpdate that handles the toggle key last: the edit and the tick see the
\* pause flag as the frame found it.
gameUpdate_ToggleLast(g, f, h, space, enter, mouse, click, time) ==
  LET r == gameUpdateFrom(g, gameUpdateEdit(g, f, mouse, click),
                          f, h, enter, mouse, click, time)
  IN  [r EXCEPT !.game = gameUpdatePause(r.game, space)]

\* gameUpdate(&game) with the inputs the frame reads: the keys, the mouse and
\* the time.  The call ends at the first assertion that fails.
gameUpdate(g, f, h, space, enter, mouse, click, time) ==
  gameUpdateFrom(gameUpdatePause(g, space),
                 gameUpdateEdit(gameUpdatePause(g, space), f, mouse, click),
                 f, h, enter, mouse, click, time)

\* gameRender3D: every item below historySize is found by historyGetItem.
gameRender3DInBounds(f, h) ==
  \A i \in 0..(historySize(h) - 1) :
    historyGetItem(h, [stride |-> f.stride, current |-> NullPtr, next |-> NullPtr], i).ret

\* The Game, the Field and the History after gameCreate and n frames of the
\* loop in each of which the step key is pressed and nothing else happens, at
\* time 0: the field has stayed empty, every push has stored the empty field
\* in the slot of end, and the cursors have moved as in historyPush.
gameStepped(field_size, n) ==
  LET h == historyCreate(field_size * field_size, GameHistorySize)
      kept == IF n < h.size THEN n ELSE h.size
  IN  [game    |-> gameCreate(field_size, SecondsPerTick),
       field   |-> fieldInit(field_size),
       history |-> [h EXCEPT !.start = n - kept,
                             !.end   = n,
                             !.data  = [i \in DOMAIN h.data |->
                                          IF i < kept * h.elem_size
                                          THEN EMPTY ELSE Indeterminate]]]

\* The draft of gameUpdate that has the speed keys and no History
\* (main.c:255-300).  Where it stands, time is counted in hundredths of a
\* second.

\* What one frame with a speed key held adds to or takes from
\* seconds_per_tick: 0.01 s.
SpeedStep == 1

\* The speed keys without the check of the result.
gameUpdateSpeed_NoFloor(g, w, s) ==
  LET spt == IF w THEN g.seconds_per_tick - SpeedStep
             ELSE IF s THEN g.seconds_per_tick + SpeedStep
             ELSE g.seconds_per_tick
  IN  [g EXCEPT !.seconds_per_tick = spt]

\* Draft gameUpdate, the speed keys: W held takes SpeedStep from spt, else S
\* held adds it; the result is stored only if it is above 0.
gameUpdateSpeed(g, w, s) ==
  LET spt == IF w THEN g.seconds_per_tick - SpeedStep
             ELSE IF s THEN g.seconds_per_tick + SpeedStep
             ELSE g.seconds_per_tick
  IN  IF spt > 0 THEN [g EXCEPT !.seconds_per_tick = spt] ELSE g

\* Draft gameUpdate, the condition of its tick: only while running.
gameUpdateDraftDue(g, time) ==
  ~ g.pause /\ (time - g.last_tick_at) > g.seconds_per_tick

\* Draft gameUpdate, the tick: fieldUpdate and last_tick_at = time, without
\* a push.
gameUpdateDraftTick(g, f, time) ==
  IF gameUpdateDraftDue(g, time)
  THEN [game |-> [g EXCEPT !.last_tick_at = time], field |-> fieldUpdate(f), ticked |-> TRUE]
  ELSE [game |-> g, field |-> f, ticked |-> FALSE]

\* What the draft gameUpdate leaves behind when it has come to the state t.
gameUpdateDraftResult(t, set, ok) ==
  [game |-> t.game, field |-> t.field, set |-> set, ticked |-> t.ticked, ok |-> ok]

\* Draft gameUpdate from the branch on pause on; g2 is the Game after the
\* toggle and the speed keys.
gameUpdateDraftFrom(g2, edit, f, mouse, click, time) ==
  LET set == g2.pause /\ mouse.inside /\ click
  IN  IF ~ gameUpdateEditInBounds(g2, f, mouse, click)
      THEN gameUpdateDraftResult([game |-> g2, field |-> f, ticked |-> FALSE], FALSE, FALSE)
      ELSE IF gameUpdateDraftDue(edit.game, time) /\ ~ fieldUpdateInBounds(edit.field)
      THEN gameUpdateDraftResult([game |-> edit.game, field |-> edit.field,
                                  ticked |-> FALSE], set, FALSE)
      ELSE gameUpdateDraftResult(gameUpdateDraftTick(edit.game, edit.field, time),
                                 set, TRUE)

\* Draft gameUpdate(&game): toggle of pause, speed keys, branch on pause,
\* tick.
gameUpdateDraft(g, f, space, w, s, mouse, click, time) ==
  gameUpdateDraftFrom(gameUpdateSpeed(gameUpdatePause(g, space), w, s),
                      gameUpdateEdit(gameUpdateSpeed(gameUpdatePause(g, space), w, s),
                                     f, mouse, click),
                      f, mouse, click, time)

----------------------------------------------------------------------------
(* types.h, the DEBUG build: the stack of profiling timers *)

\* #define MAX_PROFILE_TIMERS 50
MAX_PROFILE_TIMERS == 50

\* _nprofiles is a usize: the model holds a value of 2^64 - k as 0 - k, so that
\* ++ and -- wrap as they do in the code.  An index is inside
\* i64 _timers[MAX_PROFILE_TIMERS] when it is one of 0 .. MAX_PROFILE_TIMERS - 1.
timerInBounds(i) == i >= 0 /\ i < MAX_PROFILE_TIMERS

\* static usize _nprofiles = 0; static i64 _timers[MAX_PROFILE_TIMERS];
\* both are zeroed when the program starts.  now is the last value of mstime(),
\* calls counts the calls made, and open logs the start times of the
\* beginTimeProfile calls that no endTimeProfile has matched yet.
profileStart ==
  [nprofiles |-> 0,
   timers    |-> [i \in 0 .. (MAX_PROFILE_TIMERS - 1) |-> 0],
   now       |-> 0,
   calls     |-> 0,
   open      |-> <<>>]

\* The profiling state after n nested beginTimeProfile() calls made one
\* millisecond apart, the first at time 0, n <= MAX_PROFILE_TIMERS.
profileAfter(n) ==
  [nprofiles |-> n,
   timers    |-> [i \in 0 .. (MAX_PROFILE_TIMERS - 1) |-> IF i < n THEN i ELSE 0],
   now       |-> IF n = 0 THEN 0 ELSE n - 1,
   calls     |-> 0,
   open      |-> [i \in 1 .. n |-> i - 1]]

\* _timers[_nprofiles] = mstime() with the index outside the array is a store
\* outside the object: the word written is some other word of the program's
\* data, here _nprofiles itself (declared next to _timers) or a word the model
\* does not hold, or the store faults.  The results are [p, crashed].
timerStoreOutside(p, now) ==
  { [p |-> p, crashed |-> FALSE],
    [p |-> [p EXCEPT !.nprofiles = now], crashed |-> FALSE],
    [p |-> p, crashed |-> TRUE] }

\* _timers[_nprofiles - 1] with the index outside the array is a load outside
\* the object: it yields a word of zeroed static data or _nprofiles itself, or
\* the load faults.  The results are [value, crashed].
timerLoadOutside(p) ==
  { [value |-> 0, crashed |-> FALSE],
    [value |-> p.nprofiles, crashed |-> FALSE],
    [value |-> 0, crashed |-> TRUE] }

\* beginTimeProfile(): _timers[_nprofiles] = mstime(); _nprofiles++;
\* The results are [p, index, crashed], index being the index of the store.
beginTimeProfile(p, now) ==
  LET stored == IF timerInBounds(p.nprofiles)
                  THEN {[p |-> [p EXCEPT !.timers[p.nprofiles] = now],
                         crashed |-> FALSE]}
                  ELSE timerStoreOutside(p, now)
  IN  { [p       |-> IF s.crashed THEN s.p
                     ELSE [s.p EXCEPT !.nprofiles = s.p.nprofiles + 1],
         index   |-> p.nprofiles,
         crashed |-> s.crashed] : s \in stored }

\* endTimeProfile(format, ...): elapsed = mstime() - _timers[_nprofiles - 1];
\* _nprofiles--; and the line printed to stderr is indented by _nprofiles.
\* The results are [p, index, start, elapsed, crashed], index being the index
\* of the load and start the value loaded.
endTimeProfile(p, now) ==
  LET index  == p.nprofiles - 1
      loaded == IF timerInBounds(index)
                  THEN {[value |-> p.timers[index], crashed |-> FALSE]}
                  ELSE timerLoadOutside(p)
  IN  { [p       |-> IF l.crashed THEN p
                     ELSE [p EXCEPT !.nprofiles = p.nprofiles - 1],
         index   |-> index,
         start   |-> l.value,
         elapsed |-> now - l.value,
         crashed |-> l.crashed] : l \in loaded }

\* The state in which the profiling functions have not been called.
NoProfile == profile = profileStart

\* The state in which no Game has been created.
NoGame ==
  /\ game = [pause |-> TRUE, selected |-> FALSE, x |-> 0, y |-> 0,
             seconds_per_tick |-> 0, last_tick_at |-> 0]
  /\ clock = 0
  /\ heap = Allocated
  /\ pc = "loop"
  /\ inputs = 0
----------------------------------------------------------------------------
(* Steps shared by the specifications *)

Running == status = "running"

AliveCells(f) == {i \in DOMAIN f.current : f.current[i] = ALIVE}

\* The Field that gameRender3D hands to historyGetItem: only stride is set.
BlankItem == [stride |-> field.stride, current |-> NullPtr, next |-> NullPtr]

\* The manual toggle of gameUpdate on the cell (x, y): an Alive cell is set
\* to DEAD, any other cell to ALIVE.  Both calls go through the assertion
\* of fieldCellIndex.
Click(x, y, budget) ==
  /\ Running
  /\ edits < budget
  /\ edits' = edits + 1
  /\ IF fieldCellIndexInBounds(field, x, y)
     THEN LET alive == fieldCellIsAlive(field, x, y)
              state == IF alive THEN DEAD ELSE ALIVE
          IN  /\ field' = fieldCellSet(field, x, y, state)
              /\ call' = [op |-> "fieldCellSet", x |-> x, y |-> y, state |-> state]
              /\ status' = status
     ELSE /\ field' = field
          /\ call' = [op |-> "fieldCellSet", x |-> x, y |-> y, state |-> EMPTY]
          /\ status' = "aborted"
  /\ everAlive' = everAlive \cup AliveCells(field')
  /\ UNCHANGED <<history, pushed, ticks, gameVars, profile>>

\* One call of fieldUpdate.
Tick ==
  /\ Running
  /\ edits + ticks < MaxSteps
  /\ ticks' = ticks + 1
  /\ call' = [op |-> "fieldUpdate", before |-> field.current]
  /\ IF fieldUpdateInBounds(field)
     THEN field' = fieldUpdate(field) /\ status' = status
     ELSE field' = field /\ status' = "aborted"
  /\ everAlive' = everAlive \cup AliveCells(field')
  /\ UNCHANGED <<history, pushed, edits, gameVars, profile>>

----------------------------------------------------------------------------
(* SpecIndex: fieldCellState at coordinates inside and outside the field *)

\* Coordinates from one cell left of the field to one cell right of it,
\* shifted by up to MaxWrap strides either way.
IndexCoords(stride) == (0 - MaxWrap * stride - 1)..(MaxWrap * stride + stride)

InitIndex ==
  /\ \E stride \in 1..MaxStride :
       /\ field = fieldInit(stride)
       /\ call = [op |-> "fieldInit", stride |-> stride]
  /\ history = NoHistory
  /\ status = "running"
  /\ pushed = <<>>
  /\ edits = 0
  /\ ticks = 0
  /\ everAlive = {}
  /\ NoGame
  /\ NoProfile

\* fieldCellState(&field, x, y): the index computed, then the assertion,
\* then the read.
CallFieldCellState(x, y) ==
  /\ Running
  /\ LET idx == fieldCellIndex(field, x, y)
     IN  IF fieldCellIndexInBounds(field, x, y)
         THEN /\ call' = [op |-> "fieldCellState", x |-> x, y |-> y, idx |-> idx,
                          ret |-> fieldCellState(field, x, y)]
              /\ status' = status
         ELSE /\ call' = [op |-> "fieldCellState", x |-> x, y |-> y, idx |-> idx,
                          ret |-> EMPTY]
              /\ status' = "aborted"
  /\ UNCHANGED <<field, history, pushed, edits, ticks, everAlive, gameVars, profile>>

NextIndex == \E x \in IndexCoords(field.stride) : \E y \in IndexCoords(field.stride) :
               CallFieldCellState(x, y)

SpecIndex == InitIndex /\ [][NextIndex]_vars

----------------------------------------------------------------------------
(* SpecRule: fieldNext on fields that give a cell every number of alive
   neighbours *)

\* The eight neighbour offsets in the order fieldNext visits them.
Offsets == << <<0, 1>>, <<-1, 1>>, <<-1, 0>>, <<-1, -1>>,
              <<0, -1>>, <<1, -1>>, <<1, 0>>, <<1, 1>> >>

\* Row-major index of (x, y) wrapped onto the torus, with the floored modulo.
TorusIndex(stride, x, y) == stride * (y % stride) + (x % stride)

\* A buffer whose cell 0 holds state, whose first n neighbours of cell 0 (in
\* the order of Offsets) are ALIVE, and whose other cells hold filler.
SeedCells(stride, state, n, filler) ==
  [i \in 0..(stride * stride - 1) |->
     IF i = 0 THEN state
     ELSE IF \E k \in 1..n : TorusIndex(stride, Offsets[k][1], Offsets[k][2]) = i
          THEN ALIVE
          ELSE filler]

InitRule ==
  /\ \E stride \in 1..MaxStride : \E state \in States : \E n \in 0..8 :
     \E filler \in States \ {ALIVE} :
       /\ field = [fieldInit(stride) EXCEPT !.current = SeedCells(stride, state, n, filler)]
       /\ call = [op |-> "fieldInit", stride |-> stride]
  /\ history = NoHistory
  /\ status = "running"
  /\ pushed = <<>>
  /\ edits = 0
  /\ ticks = 0
  /\ everAlive = {}
  /\ NoGame
  /\ NoProfile

\* fieldNext(&field, x, y) for a cell of the field, as fieldUpdate calls it.
CallFieldNext(x, y) ==
  /\ Running
  /\ IF fieldNextInBounds(field, x, y)
     THEN /\ call' = [op |-> "fieldNext", x |-> x, y |-> y, ret |-> fieldNext(field, x, y)]
          /\ status' = status
     ELSE /\ call' = [op |-> "fieldNext", x |-> x, y |-> y, ret |-> EMPTY]
          /\ status' = "aborted"
  /\ UNCHANGED <<field, history, pushed, edits, ticks, everAlive, gameVars, profile>>

NextRule == \E x \in 0..(field.stride - 1) : \E y \in 0..(field.stride - 1) :
              CallFieldNext(x, y)

SpecRule == InitRule /\ [][NextRule]_vars

----------------------------------------------------------------------------
(* SpecField: a field after fieldInit, edited by clicks and advanced by
   fieldUpdate *)

InitField ==
  /\ \E stride \in 0..MaxStride :
       /\ field = fieldInit(stride)
       /\ call = [op |-> "fieldInit", stride |-> stride]
  /\ history = NoHistory
  /\ status = "running"
  /\ pushed = <<>>
  /\ edits = 0
  /\ ticks = 0
  /\ everAlive = {}
  /\ NoGame
  /\ NoProfile

ClickField == \E x \in 0..(field.stride - 1) : \E y \in 0..(field.stride - 1) :
                Click(x, y, MaxSteps - ticks)

NextField == ClickField \/ Tick

SpecField == InitField /\ [][NextField]_vars
----------------------------------------------------------------------------
(* SpecHistory: a History ring that receives snapshots of a field which is
   edited between the pushes *)

\* Indices asked of historyGetItem: every retained one and two beyond the
\* largest capacity.
ItemIndices == 0..(MaxCapacity + 1)

InitHistory ==
  /\ \E stride \in 1..MaxHistStride : \E side \in 1..MaxHistStride :
     \E size \in 1..MaxCapacity :
       /\ field = fieldInit(stride)
       /\ history = historyCreate(side * side, size)
       /\ call = [op |-> "historyCreate", elem_size |-> side * side, size |-> size]
  /\ status = "running"
  /\ pushed = <<>>
  /\ edits = 0
  /\ ticks = 0
  /\ everAlive = {}
  /\ NoGame
  /\ NoProfile

\* historyPush(&history, field): the assertion, then the copy and the
\* cursors.
Push(budget) ==
  /\ Running
  /\ Len(pushed) < budget
  /\ call' = [op |-> "historyPush"]
  /\ IF historyPushMatches(history, field)
     THEN /\ history' = historyPush(history, field)
          /\ pushed' = Append(pushed, field.current)
          /\ status' = status
     ELSE /\ history' = history
          /\ pushed' = pushed
          /\ status' = "aborted"
  /\ UNCHANGED <<field, edits, ticks, everAlive, gameVars, profile>>

HistoryPush == Push(MaxPushes)

\* The Field item a caller hands to historyGetItem, as gameRender3D does:
\* the one that the historyGetItem before has left, and after any other call
\* one that has only its stride set.
CallerItem == IF call.op = "historyGetItem" THEN call.item ELSE BlankItem

\* historyGetItem(&history, &item, i): item is the caller's Field after the
\* call.
HistoryGetItem(i) ==
  /\ Running
  /\ \E r \in {historyGetItem(history, CallerItem, i)} :
       call' = [op |-> "historyGetItem", i |-> i, ret |-> r.ret, item |-> r.item]
  /\ UNCHANGED <<field, history, status, pushed, edits, ticks, everAlive, gameVars, profile>>

\* historySize(&history).
HistorySize ==
  /\ Running
  /\ call' = [op |-> "historySize", ret |-> historySize(history)]
  /\ UNCHANGED <<field, history, status, pushed, edits, ticks, everAlive, gameVars, profile>>

ClickHistory == \E x \in 0..(field.stride - 1) : \E y \in 0..(field.stride - 1) :
                  Click(x, y, MaxHistEdits)

NextHistory ==
  \/ HistoryPush
  \/ \E i \in ItemIndices : HistoryGetItem(i)
  \/ HistorySize
  \/ ClickHistory

SpecHistory == InitHistory /\ [][NextHistory]_vars
----------------------------------------------------------------------------
(* SpecGame: gameOfLife, from gameCreate through the frames of its loop to
   gameClose *)

\* What a frame can find the mouse doing: outside the rectangle, or inside
\* it over one of the cells.
Mouse(stride) ==
  {[inside |-> FALSE, x |-> 0, y |-> 0]} \cup
  {[inside |-> TRUE, x |-> x, y |-> y] : x \in 0..(stride - 1), y \in 0..(stride - 1)}

InitGame ==
  /\ \E field_size \in 1..MaxGameStride :
       /\ field = fieldInit(field_size)
       /\ history = historyCreate(field_size * field_size, GameHistorySize)
       /\ game = gameCreate(field_size, SecondsPerTick)
       /\ call = [op |-> "gameCreate", field_size |-> field_size,
                  seconds_per_tick |-> SecondsPerTick]
  /\ clock = 0
  /\ heap = Allocated
  /\ pc = "loop"
  /\ inputs = 0
  /\ status = "running"
  /\ pushed = <<>>
  /\ edits = 0
  /\ ticks = 0
  /\ everAlive = {}
  /\ NoProfile

\* One iteration of the loop of gameOfLife: gameUpdate, then gameRender3D
\* and gameRender2D, which read the field and the history.
Frame(budget, space, enter, mouse, click, time) ==
  /\ Running
  /\ pc = "loop"
  /\ LET events == BoolToInt(space) + BoolToInt(enter)
                      + BoolToInt(mouse.inside \/ click) + BoolToInt(time > clock)
     IN  inputs' = inputs + (IF events = 0 THEN 1 ELSE events)
  /\ inputs' <= budget
  /\ \E r \in {gameUpdate(game, field, history, space, enter, mouse, click, time)} :
      \E found \in {r.ok /\ gameRender3DInBounds(r.field, r.history)} :
         /\ game' = r.game
         /\ field' = r.field
         /\ history' = r.history
         /\ status' = IF found THEN status ELSE "aborted"
         /\ pushed' = IF r.pushed THEN Append(pushed, r.edit.current) ELSE pushed
         /\ edits' = edits + BoolToInt(r.set)
         /\ ticks' = ticks + BoolToInt(r.ticked)
         /\ everAlive' = everAlive \cup AliveCells(r.edit) \cup AliveCells(r.field)
         /\ call' = [op |-> "gameUpdate", space |-> space, enter |-> enter,
                     mouse |-> mouse, click |-> click, time |-> time,
                     before |-> [game |-> game, current |-> field.current],
                     render3d |-> found]
  /\ clock' = time
  /\ heap' = heapAccess(heap)
  /\ pc' = pc
  /\ UNCHANGED profile

\* The frames of SpecGame, within its budget of inputs.
GameFrame(space, enter, mouse, click, time) ==
  Frame(MaxInputs, space, enter, mouse, click, time)

\* WindowShouldClose() has returned true: gameClose, then gameOfLife returns.
GameClose ==
  /\ Running
  /\ pc = "loop"
  /\ inputs < MaxInputs
  /\ \E r \in {gameClose(game, heap)} : game' = r.game /\ heap' = r.heap
  /\ pc' = "returned"
  /\ call' = [op |-> "gameClose"]
  /\ inputs' = inputs + 1
  /\ UNCHANGED <<field, history, status, pushed, edits, ticks, everAlive, clock, profile>>

NextGame ==
  \/ \E space \in BOOLEAN : \E enter \in BOOLEAN : \E mouse \in Mouse(field.stride) :
     \E click \in BOOLEAN : \E time \in clock..(clock + SecondsPerTick + 1) :
       GameFrame(space, enter, mouse, click, time)
  \/ GameClose

SpecGame == InitGame /\ [][NextGame]_vars
----------------------------------------------------------------------------
(* SpecDraft: the frames of the draft of gameUpdate that has the speed keys *)

InitDraft ==
  /\ \E field_size \in 1..MaxDraftStride : \E seconds_per_tick \in 1..MaxDraftInterval :
       /\ field = fieldInit(field_size)
       /\ game = gameCreate(field_size, seconds_per_tick)
       /\ call = [op |-> "gameCreate", field_size |-> field_size,
                  seconds_per_tick |-> seconds_per_tick]
  /\ history = NoHistory
  /\ clock = 0
  /\ heap = Allocated
  /\ pc = "loop"
  /\ inputs = 0
  /\ status = "running"
  /\ pushed = <<>>
  /\ edits = 0
  /\ ticks = 0
  /\ everAlive = {}
  /\ NoProfile

\* One call of the draft gameUpdate; w and s tell whether IsKeyDown(KEY_W)
\* and IsKeyDown(KEY_S) hold.
DraftFrame(space, w, s, mouse, click, time) ==
  /\ Running
  /\ LET events == BoolToInt(space) + BoolToInt(w) + BoolToInt(s)
                      + BoolToInt(mouse.inside \/ click) + BoolToInt(time > clock)
     IN  inputs' = inputs + (IF events = 0 THEN 1 ELSE events)
  /\ inputs' <= MaxInputs
  /\ \E r \in {gameUpdateDraft(game, field, space, w, s, mouse, click, time)} :
         /\ game' = r.game
         /\ field' = r.field
         /\ status' = IF r.ok THEN status ELSE "aborted"
         /\ edits' = edits + BoolToInt(r.set)
         /\ ticks' = ticks + BoolToInt(r.ticked)
         /\ everAlive' = everAlive \cup AliveCells(r.field)
  /\ call' = [op |-> "gameUpdateDraft", space |-> space, w |-> w, s |-> s,
              mouse |-> mouse, click |-> click, time |-> time,
              before |-> [game |-> game, current |-> field.current]]
  /\ clock' = time
  /\ UNCHANGED <<history, pushed, heap, pc, profile>>

NextDraft ==
  \E space \in BOOLEAN : \E w \in BOOLEAN : \E s \in BOOLEAN :
  \E mouse \in Mouse(field.stride) : \E click \in BOOLEAN :
  \E time \in clock..(clock + MaxDraftInterval + 1) :
    DraftFrame(space, w, s, mouse, click, time)

SpecDraft == InitDraft /\ [][NextDraft]_vars
----------------------------------------------------------------------------
(* The transition rule and the torus as the specification states them *)

\* Number of the eight neighbour offsets of (x, y) that lead to an ALIVE
\* cell of the buffer cells, the torus wrapped with the floored modulo.
AliveNeighbours(cells, stride, x, y) ==
  Cardinality({k \in 1..8 :
     cells[TorusIndex(stride, x + Offsets[k][1], y + Offsets[k][2])] = ALIVE})

\* Next state of a cell from the count of its alive neighbours and its state.
Rule(count, state) ==
  IF count = 3 \/ (count = 2 /\ state = ALIVE)
  THEN ALIVE
  ELSE IF state = ALIVE THEN DIYING
       ELSE IF state = DIYING THEN DEAD
       ELSE IF state = DEAD THEN DEAD
       ELSE EMPTY

Cells(stride) == (0..(stride - 1)) \X (0..(stride - 1))

----------------------------------------------------------------------------
(* C1, under SpecIndex *)

\* C1: for every stride s > 0 and all integers x, y, k, m, fieldCellState(x, y)
\* reads the same cell as fieldCellState(x + k*s, y + m*s): the read happens
\* (no assertion stops it) at row (y floored-mod s) and column
\* (x floored-mod s).
C1_ToroidalPeriodicity ==
  call.op = "fieldCellState" =>
    /\ status = "running"
    /\ call.idx = TorusIndex(field.stride, call.x, call.y)
    /\ \A k \in (0 - MaxWrap)..MaxWrap : \A m \in (0 - MaxWrap)..MaxWrap :
         fieldCellIndex(field, call.x + k * field.stride, call.y + m * field.stride)
           = call.idx

----------------------------------------------------------------------------
(* C2, under SpecRule *)

\* C2: fieldNext returns ALIVE when the count of alive neighbours is 3, or is
\* 2 and the cell is ALIVE; otherwise DIYING for ALIVE, DEAD for DIYING, DEAD
\* for DEAD and EMPTY for EMPTY.
C2_TransitionTable ==
  call.op = "fieldNext" =>
    /\ status = "running"
    /\ call.ret =
         Rule(AliveNeighbours(field.current, field.stride, call.x, call.y),
              field.current[TorusIndex(field.stride, call.x, call.y)])

\* fieldNext has returned ALIVE for an EMPTY cell with exactly 3 alive
\* neighbours out of 8 distinct ones.
C2_Witness ==
  /\ call.op = "fieldNext"
  /\ status = "running"
  /\ field.stride = 3
  /\ AliveNeighbours(field.current, field.stride, call.x, call.y) = 3
  /\ field.current[TorusIndex(field.stride, call.x, call.y)] = EMPTY
  /\ call.ret = ALIVE

----------------------------------------------------------------------------
(* C3, C4, C5, C10, under SpecField *)

\* C3: after fieldUpdate every cell of the current buffer is the transition
\* rule applied to that cell and its 8 wrapped neighbours as they were in the
\* current buffer before the call.
C3_SynchronousUpdate ==
  (call.op = "fieldUpdate" /\ status = "running") =>
    \A c \in Cells(field.stride) :
      field.current[TorusIndex(field.stride, c[1], c[2])] =
        Rule(AliveNeighbours(call.before, field.stride, c[1], c[2]),
             call.before[TorusIndex(field.stride, c[1], c[2])])

\* fieldUpdate has run on a field in which a cell and a neighbour that the
\* loop visits before it both changed state.
C3_Witness ==
  /\ call.op = "fieldUpdate"
  /\ status = "running"
  /\ field.stride = 3
  /\ \E i \in 1..8 :
       /\ call.before[i] # field.current[i]
       /\ call.before[i - 1] # field.current[i - 1]

\* The vertical blinker on a field of stride 3: (1,0), (1,1), (1,2) ALIVE
\* and every other cell EMPTY.
Blinker(cells) ==
  cells = [i \in 0..8 |-> IF i \in {1, 4, 7} THEN ALIVE ELSE EMPTY]

\* C4 as stated: one fieldUpdate of the blinker on stride 3 makes (0,1) and
\* (2,1) ALIVE, makes (1,0) and (1,2) DIYING and leaves (1,1) ALIVE.
C4_BlinkerAsStated ==
  (call.op = "fieldUpdate" /\ field.stride = 3 /\ Blinker(call.before)) =>
    /\ field.current[TorusIndex(3, 0, 1)] = ALIVE
    /\ field.current[TorusIndex(3, 2, 1)] = ALIVE
    /\ field.current[TorusIndex(3, 1, 0)] = DIYING
    /\ field.current[TorusIndex(3, 1, 2)] = DIYING
    /\ field.current[TorusIndex(3, 1, 1)] = ALIVE

\* C4, amended: one fieldUpdate of the blinker on stride 3 makes (0,1) and
\* (2,1) ALIVE and leaves (1,0), (1,1) and (1,2) ALIVE: on a torus of side 3
\* the end cells of the blinker are neighbours of each other through the
\* wrap, so each has 2 alive neighbours; indeed all nine cells are ALIVE.
C4_BlinkerOnTorus ==
  (call.op = "fieldUpdate" /\ field.stride = 3 /\ Blinker(call.before)) =>
    /\ status = "running"
    /\ field.current[TorusIndex(3, 0, 1)] = ALIVE
    /\ field.current[TorusIndex(3, 2, 1)] = ALIVE
    /\ field.current[TorusIndex(3, 1, 0)] = ALIVE
    /\ field.current[TorusIndex(3, 1, 2)] = ALIVE
    /\ field.current[TorusIndex(3, 1, 1)] = ALIVE
    /\ \A i \in 0..8 : field.current[i] = ALIVE

\* fieldUpdate has run on the blinker.
C4_Witness ==
  /\ call.op = "fieldUpdate"
  /\ status = "running"
  /\ field.stride = 3
  /\ Blinker(call.before)

\* C5: at a tick a cell with 0 alive neighbours goes from ALIVE to DIYING,
\* from DIYING to DEAD and from DEAD to DEAD; and whatever the clicks and
\* ticks, a cell that has been ALIVE is never EMPTY again.
C5_DecayChain ==
  /\ (call.op = "fieldUpdate" /\ status = "running") =>
       \A c \in Cells(field.stride) :
         LET i == TorusIndex(field.stride, c[1], c[2])
         IN  AliveNeighbours(call.before, field.stride, c[1], c[2]) = 0 =>
               /\ call.before[i] = ALIVE  => field.current[i] = DIYING
               /\ call.before[i] = DIYING => field.current[i] = DEAD
               /\ call.before[i] = DEAD   => field.current[i] = DEAD
  /\ \A i \in everAlive : field.current[i] # EMPTY

\* One click made a cell ALIVE and three ticks followed: the cell, which
\* never had an alive neighbour, was DEAD before the third tick and is DEAD
\* after it.
C5_Witness ==
  /\ call.op = "fieldUpdate"
  /\ status = "running"
  /\ edits = 1
  /\ ticks = 3
  /\ \E i \in everAlive : call.before[i] = DEAD /\ field.current[i] = DEAD

\* C10: field initialisation with stride 0 fails; with stride > 0 it gives
\* stride*stride current cells and next cells, all EMPTY.
C10_FieldInit ==
  call.op = "fieldInit" =>
    IF call.stride = 0
    THEN status = "aborted"
    ELSE /\ status = "running"
         /\ field.stride = call.stride
         /\ field.current = [i \in 0..(call.stride * call.stride - 1) |-> EMPTY]
         /\ field.next = [i \in 0..(call.stride * call.stride - 1) |-> EMPTY]
----------------------------------------------------------------------------
(* C6, C7, C8, C9, under SpecHistory *)

\* What historyGetItem(i) lets its caller read: the cells behind the pointer
\* it stored in the caller's Field.
ItemRead(i) ==
  ItemCells(history, historyGetItem(history, BlankItem, i).item.current)

ItemFound(i) == historyGetItem(history, BlankItem, i).ret

\* C6: after capacity + k pushes (k >= 0) historySize returns capacity,
\* historyGetItem(0) yields the snapshot of push number k (0-based), which is
\* the capacity-th newest, historyGetItem(capacity - 1) yields the last
\* pushed snapshot and historyGetItem(capacity) finds nothing.
C6_HistoryEviction ==
  Len(pushed) >= history.size =>
    LET k == Len(pushed) - history.size
    IN  /\ historySize(history) = history.size
        /\ ItemFound(0)
        /\ ItemRead(0) = pushed[k + 1]
        /\ ItemFound(history.size - 1)
        /\ ItemRead(history.size - 1) = pushed[Len(pushed)]
        /\ ~ ItemFound(history.size)

\* Capacity 2 and pushes A, B, C of three different buffers: historyGetItem(0)
\* has returned true and points at B.
C6_Witness ==
  /\ call.op = "historyGetItem"
  /\ call.i = 0
  /\ call.ret
  /\ history.size = 2
  /\ Len(pushed) = 3
  /\ Cardinality({pushed[1], pushed[2], pushed[3]}) = 3
  /\ ItemCells(history, call.item.current) = pushed[2]

\* Number of snapshots the ring retains: all the pushed ones, up to size.
Retained == IF Len(pushed) < history.size THEN Len(pushed) ELSE history.size

\* C7: historyGetItem(i) returns false for every i >= historySize() and true
\* with the i-th oldest retained snapshot for every i < historySize(); on a
\* History just created every index is not found.
C7_HistoryBounds ==
  /\ historySize(history) = Retained
  /\ \A i \in ItemIndices :
       IF i < Retained
       THEN ItemFound(i) /\ ItemRead(i) = pushed[Len(pushed) - Retained + i + 1]
       ELSE ~ ItemFound(i)
  /\ call.op = "historyCreate" => \A i \in ItemIndices : ~ ItemFound(i)

\* historyGetItem has returned false for the index just past the newest
\* entry of a ring that has evicted, and true for the newest one before.
C7_Witness ==
  /\ call.op = "historyGetItem"
  /\ ~ call.ret
  /\ call.i = historySize(history)
  /\ call.item = BlankItem
  /\ Len(pushed) > history.size
  /\ ItemFound(call.i - 1)

\* start <= end and end - start <= size.
CursorsInOrder ==
  /\ ~ u32lt(history.end, history.start)
  /\ ~ u32lt(history.size, u32sub(history.end, history.start))

\* A push moves end up by 1 and start up by 1 exactly when the ring was
\* full; no step moves a cursor down.
CursorsAdvance ==
  /\ Len(pushed') = Len(pushed) + 1 =>
       /\ history'.end = history.end + 1
       /\ history'.start = history.start +
            (IF history.end - history.start = history.size THEN 1 ELSE 0)
       /\ history'.start - history.start =
            (IF (history.end + 1) - history.start > history.size
             THEN (history.end + 1) - history.start - history.size ELSE 0)
  /\ history'.start >= history.start
  /\ history'.end >= history.end

\* C8: after historyCreate and any sequence of historyPush calls,
\* start <= end and end - start <= size; each push increases end by exactly 1
\* and start by the amount by which end - start would exceed size; neither
\* cursor ever decreases.
C8_RingCursors == [] CursorsInOrder /\ [][CursorsAdvance]_vars

\* A push into a full ring has moved both cursors.
C8_Witness ==
  /\ call.op = "historyPush"
  /\ status = "running"
  /\ history.start > 0
  /\ history.end - history.start = history.size

\* C9: historyPush with a field whose stride*stride differs from elem_size
\* halts the process at the assertion, with the ring's data and both cursors
\* as they were.
C9_PushMismatchHalts ==
  [][(call'.op = "historyPush" /\ history.elem_size # field.stride * field.stride)
       => (status' = "aborted" /\ history' = history /\ field' = field)]_vars

\* historyPush has been called with a field of another size and the process
\* has halted.
C9_Witness ==
  /\ call.op = "historyPush"
  /\ history.elem_size # field.stride * field.stride
  /\ status = "aborted"
----------------------------------------------------------------------------
(* C11 to C15, C17, C19, under SpecGame *)

\* The buffer cells after the manual toggle of a frame: when the game is
\* paused and the left button is pressed over a cell, that cell is DEAD if it
\* was ALIVE and ALIVE otherwise; no other cell differs.
Edited(cells, stride, paused, mouse, click) ==
  IF paused /\ mouse.inside /\ click
  THEN LET i == TorusIndex(stride, mouse.x, mouse.y)
       IN  [cells EXCEPT ![i] = IF cells[i] = ALIVE THEN DEAD ELSE ALIVE]
  ELSE cells

\* The buffer cells one generation later.
OneGeneration(cells, stride) ==
  [i \in DOMAIN cells |->
     Rule(AliveNeighbours(cells, stride, i % stride, i \div stride), cells[i])]

\* The i-th oldest entry that the History h retains.
HistoryEntry(h, i) ==
  ItemCells(h, historyGetItem(h, [stride |-> 0, current |-> NullPtr, next |-> NullPtr],
                              i).item.current)

\* The History after is the History before with cells pushed: cells is the
\* newest entry, and the entries before it are the ones that before had, less
\* the oldest if before was full.
PushedOnto(before, after, cells) ==
  LET n == historySize(before)
      m == historySize(after)
  IN  /\ m = IF n < before.size THEN n + 1 ELSE before.size
      /\ HistoryEntry(after, m - 1) = cells
      /\ \A i \in 0..(m - 2) : HistoryEntry(after, i) = HistoryEntry(before, i + (n + 1 - m))

\* C11: a game created by gameCreate is paused; a frame in which the toggle
\* key is pressed flips pause exactly once, a frame without it leaves pause
\* as it was.
C11_PauseToggle ==
  /\ call.op = "gameCreate" => game.pause
  /\ call.op = "gameUpdate" =>
       IF call.space
       THEN game.pause = ~ call.before.game.pause
       ELSE game.pause = call.before.game.pause

\* The toggle key has paused a game that an earlier frame had set running.
C11_Witness ==
  /\ call.op = "gameUpdate"
  /\ call.space
  /\ ~ call.before.game.pause
  /\ game.pause

\* C12: a frame in which the game is paused after the toggle handling and
\* the step key is pressed pushes the field as it is before the advance
\* (after the click of the frame, if any) to the history and advances the
\* field by exactly one generation; a paused frame without the step key
\* pushes nothing and advances nothing, whatever the time.
C12_StepWhilePaused ==
  [][(call'.op = "gameUpdate" /\ game'.pause) =>
       LET edited == Edited(field.current, field.stride, TRUE, call'.mouse, call'.click)
       IN  IF call'.enter
           THEN /\ PushedOnto(history, history', edited)
                /\ field'.current = OneGeneration(edited, field.stride)
           ELSE /\ history' = history
                /\ field'.current = edited]_vars

\* A paused frame with the step key and a click: the field that was pushed
\* holds the click, and the field has moved on from it.
C12_Witness ==
  /\ call.op = "gameUpdate"
  /\ game.pause
  /\ call.enter
  /\ call.mouse.inside /\ call.click
  /\ historySize(history) = 2
  /\ HistoryEntry(history, 1) # call.before.current
  /\ HistoryEntry(history, 1) # field.current
  /\ field.current = OneGeneration(HistoryEntry(history, 1), field.stride)

\* C13: a frame in which the game is running ticks if and only if
\* time - last_tick_at > seconds_per_tick; the tick pushes the current field
\* to the history, advances the field and sets last_tick_at to the time of
\* the frame; without a tick last_tick_at, the field and the history stay as
\* they were.
C13_AutomaticTick ==
  [][(call'.op = "gameUpdate" /\ ~ game'.pause) =>
       IF (call'.time - game.last_tick_at) > game.seconds_per_tick
       THEN /\ PushedOnto(history, history', field.current)
            /\ field'.current = OneGeneration(field.current, field.stride)
            /\ game'.last_tick_at = call'.time
            /\ ticks' = ticks + 1
       ELSE /\ game'.last_tick_at = game.last_tick_at
            /\ field' = field
            /\ history' = history
            /\ ticks' = ticks]_vars

\* A running frame has ticked on a field with an ALIVE cell, one unit of time
\* after the interval had passed without a tick being due.
C13_Witness ==
  /\ call.op = "gameUpdate"
  /\ ~ game.pause
  /\ call.time - call.before.game.last_tick_at = game.seconds_per_tick + 1
  /\ game.last_tick_at = call.time
  /\ AliveCells([current |-> call.before.current]) # {}
  /\ HistoryEntry(history, historySize(history) - 1) = call.before.current
  /\ field.current # call.before.current

\* C14: one gameUpdate advances the field by at most one generation and
\* pushes at most one entry to the history.
C14_NoCatchUp ==
  [][call'.op = "gameUpdate" =>
       LET edited == Edited(field.current, field.stride, game'.pause, call'.mouse,
                            call'.click)
       IN  /\ \/ field'.current = edited
              \/ field'.current = OneGeneration(edited, field.stride)
           /\ \/ history' = history
              \/ PushedOnto(history, history', edited)
           /\ ticks' - ticks <= 1]_vars

\* A running frame found two intervals or more passed since the last tick
\* and made one tick.
C14_Witness ==
  /\ call.op = "gameUpdate"
  /\ ~ game.pause
  /\ call.time - call.before.game.last_tick_at >= 2 * game.seconds_per_tick
  /\ game.last_tick_at = call.time
  /\ historySize(history) = 1
  /\ ticks = 1

\* C15: while the game is paused, a click on a cell inside the rectangle
\* sets that cell to DEAD if it was ALIVE and to ALIVE otherwise, whatever the
\* transition rule would give; no other cell of the current buffer, nothing
\* of the history and nothing of the pause flag (beyond what the toggle key
\* of the frame did) is changed by it.
C15_ManualToggle ==
  [][(call'.op = "gameUpdate" /\ game'.pause /\ call'.mouse.inside /\ call'.click
        /\ ~ call'.enter) =>
       LET i == TorusIndex(field.stride, call'.mouse.x, call'.mouse.y)
       IN  /\ field'.current[i] = IF field.current[i] = ALIVE THEN DEAD ELSE ALIVE
           /\ \A j \in DOMAIN field.current : j # i => field'.current[j] = field.current[j]
           /\ DOMAIN field'.current = DOMAIN field.current
           /\ history' = history
           /\ game'.pause = IF call'.space THEN ~ game.pause ELSE game.pause]_vars

\* A click has set a DIYING cell to ALIVE; the rule would have made it DEAD.
C15_Witness ==
  /\ call.op = "gameUpdate"
  /\ game.pause
  /\ call.mouse.inside /\ call.click
  /\ ~ call.enter
  /\ LET i == TorusIndex(field.stride, call.mouse.x, call.mouse.y)
     IN  /\ call.before.current[i] = DIYING
         /\ field.current[i] = ALIVE
         /\ OneGeneration(call.before.current, field.stride)[i] = DEAD

\* C17: when the loop of gameOfLife has ended, the current buffer, the next
\* buffer and the block of the history have each been released exactly once;
\* none is released before, and none is read or written after its release.
C17_Teardown ==
  /\ ~ heap.stale
  /\ pc = "loop" => heap.current = 0 /\ heap.next = 0 /\ heap.data = 0
  /\ pc = "returned" => heap.current = 1 /\ heap.next = 1 /\ heap.data = 1

\* gameOfLife has returned from a game whose field was edited and ticked and
\* whose history was pushed.
C17_Witness ==
  /\ pc = "returned"
  /\ call.op = "gameClose"
  /\ edits > 0
  /\ ticks > 0
  /\ historySize(history) > 0

\* C19: every cell of the current buffer and every cell of every entry the
\* history retains holds one of EMPTY, DEAD, DIYING, ALIVE, and fieldNext
\* returns one of the four for every cell of the field; on the fields that
\* give a cell each state and each number of alive neighbours it does so,
\* too.
C19_StateDomain ==
  /\ \A i \in DOMAIN field.current : field.current[i] \in States
  /\ \A k \in 0..(historySize(history) - 1) :
       \A j \in 0..(history.elem_size - 1) : HistoryEntry(history, k)[j] \in States
  /\ \A c \in Cells(field.stride) : fieldNext(field, c[1], c[2]) \in States
  /\ call.op = "gameCreate" =>
       \A stride \in 1..MaxStride : \A state \in States : \A n \in 0..8 :
         fieldNext([fieldInit(stride) EXCEPT !.current = SeedCells(stride, state, n, EMPTY)],
                   0, 0) \in States

\* The history retains an entry with an ALIVE cell and a later one with a
\* DIYING cell, and the field holds a DEAD cell.
C19_Witness ==
  /\ historySize(history) = 2
  /\ \E j \in DOMAIN field.current :
       /\ HistoryEntry(history, 0)[j] = ALIVE
       /\ HistoryEntry(history, 1)[j] = DIYING
       /\ field.current[j] = DEAD
----------------------------------------------------------------------------
(* C16, under SpecDraft *)

\* C16: from a positive seconds_per_tick at gameCreate, after any frames
\* with the speed-up key, the slow-down key or neither held,
\* seconds_per_tick is above 0; a decrement that would bring it to 0 or below
\* leaves it as it was.
C16_IntervalFloor ==
  /\ game.seconds_per_tick > 0
  /\ (call.op = "gameUpdateDraft" /\ call.w
        /\ call.before.game.seconds_per_tick - SpeedStep <= 0)
       => game.seconds_per_tick = call.before.game.seconds_per_tick
  /\ (call.op = "gameUpdateDraft" /\ call.w
        /\ call.before.game.seconds_per_tick - SpeedStep > 0)
       => game.seconds_per_tick = call.before.game.seconds_per_tick - SpeedStep

\* A frame with the speed-up key held has found seconds_per_tick at one step
\* and has left it there.
C16_Witness ==
  /\ call.op = "gameUpdateDraft"
  /\ call.w
  /\ call.before.game.seconds_per_tick = SpeedStep
  /\ game.seconds_per_tick = SpeedStep
----------------------------------------------------------------------------
(* C18, under SpecIndex *)

\* C18: for every stride > 0 and all signed coordinates x, y, the index that
\* fieldCellIndex computes after the wrap is below stride*stride, so that its
\* assertion never fires.
C18_IndexBound ==
  call.op = "fieldCellState" =>
    /\ u32lt(call.idx, field.stride * field.stride)
    /\ status = "running"

----------------------------------------------------------------------------
(* C20, under SpecRule *)

----------------------------------------------------------------------------
(* C21, under SpecHistory *)

\* A historyPush that got past its assertion has just been taken.
Pushing == call'.op = "historyPush" /\ status' = "running"

\* The bytes of history->data that make up physical slot number slot.
SlotBytes(h, slot) == (slot * h.elem_size)..(slot * h.elem_size + h.elem_size - 1)

----------------------------------------------------------------------------
(* SpecLongRun: the frames of a game whose ring of snapshots is full, or one
   tick away from it *)

\* The game after gameCreate and n frames in which the step key was pressed on
\* the empty field: n snapshots pushed, n generations computed, with n at the
\* capacity of the ring, one below it or one above it.
InitLongRun ==
  /\ \E field_size \in 1..MaxLongStride :
     \E n \in (GameHistorySize - 1)..(GameHistorySize + 1) :
     \E s \in {gameStepped(field_size, n)} :
       /\ game = s.game
       /\ field = s.field
       /\ history = s.history
       /\ pushed = [i \in 1..n |-> Zeroed(field_size * field_size)]
       /\ ticks = n
       /\ call = [op |-> "gameStepped", n |-> n]
  /\ clock = 0
  /\ heap = Allocated
  /\ pc = "loop"
  /\ inputs = 0
  /\ status = "running"
  /\ edits = 0
  /\ everAlive = {}
  /\ NoProfile

LongFrame(space, enter, mouse, click, time) ==
  Frame(MaxLongInputs, space, enter, mouse, click, time)

NextLongRun ==
  \E space \in BOOLEAN : \E enter \in BOOLEAN : \E mouse \in Mouse(field.stride) :
  \E click \in BOOLEAN : \E time \in clock..(clock + SecondsPerTick + 1) :
    LongFrame(space, enter, mouse, click, time)

SpecLongRun == InitLongRun /\ [][NextLongRun]_vars

\* gameStepped is what the frames of gameUpdate make: an invariant of
\* SpecGame, whose frames reach the first few n.
GameSteppedAgrees ==
  (/\ call.op = "gameUpdate"
   /\ ticks = Len(pushed)
   /\ edits = 0
   /\ clock = 0
   /\ game.pause
   /\ ~ game.selected
   /\ game.x = 0
   /\ game.y = 0)
  => [game |-> game, field |-> field, history |-> history]
       = gameStepped(field.stride, ticks)
----------------------------------------------------------------------------
(* C22, under SpecLongRun *)

\* C22: the assertion in gameRender3D never fails: in every reachable state
\* of the game historyGetItem succeeds for every i with
\* 0 <= i < historySize(), which the loop visits from the newest down to the
\* oldest; the ring then holds every snapshot pushed, up to its capacity.
C22_RenderFindsEveryItem ==
  /\ historySize(history) =
       (IF Len(pushed) < GameHistorySize THEN Len(pushed) ELSE GameHistorySize)
  /\ \A i \in 0..(historySize(history) - 1) : historyGetItem(history, BlankItem, i).ret
  /\ call.op = "gameUpdate" => call.render3d

\* A frame has ticked with the ring full, has evicted the oldest snapshot,
\* and its render has found all the items of the ring.
C22_Witness ==
  /\ call.op = "gameUpdate"
  /\ call.render3d
  /\ Len(pushed) > GameHistorySize
  /\ historySize(history) = GameHistorySize
  /\ history.start > 0
----------------------------------------------------------------------------
(* SpecWrap: the History of a field of one cell, from the last pushes before
   end reaches 2^32 through the first pushes after it *)

\* The snapshots that the ring retains, oldest first: the older ones are of
\* the empty field, each of the newest two is of the field with its cell
\* EMPTY or ALIVE.
Tails(size) ==
  {[i \in 1..size |-> [j \in {0} |-> IF i > size - 2 THEN recent[size - i] ELSE EMPTY]] :
     recent \in [{0, 1} -> {EMPTY, ALIVE}]}

\* The History of capacity size after 2^32 - k calls of historyPush, the last
\* size of them with the snapshots of tail: end is 2^32 - k, the ring has been
\* full for long and start is size below end, and the snapshot of push number
\* start + i lies in the slot that historyPush has copied it to.
historyBeforeWrap(size, k, tail) ==
  LET h     == historyCreate(1, size)
      start == u32sub(0 - k, size)
      at    == [i \in 0..(size - 1) |-> historyDataIndex(h, u32add(start, i))]
  IN  [h EXCEPT !.start = start,
                !.end   = 0 - k,
                !.data  = [slot \in DOMAIN h.data |->
                             tail[(CHOOSE i \in 0..(size - 1) : at[i] = slot) + 1][0]]]

InitWrap ==
  /\ \E size \in (1..MaxWrapCapacity) \cup {GameHistorySize} :
     \E k \in 0..MaxBeforeWrap : \E tail \in Tails(size) :
       /\ history = historyBeforeWrap(size, k, tail)
       /\ pushed = tail
       /\ call = [op |-> "historyBeforeWrap", size |-> size, k |-> k]
  /\ field = fieldInit(1)
  /\ status = "running"
  /\ edits = 0
  /\ ticks = 0
  /\ everAlive = {}
  /\ NoGame
  /\ NoProfile

WrapPush == Push(history.size + MaxWrapPushes)

NextWrap ==
  \/ WrapPush
  \/ \E i \in ItemIndices : HistoryGetItem(i)
  \/ HistorySize
  \/ ClickHistory

SpecWrap == InitWrap /\ [][NextWrap]_vars
----------------------------------------------------------------------------
(* C23, under SpecWrap.  C6, C7 and C21 above are about the pushes that come
   before end reaches 2^32. *)

\* C23: with start and end held as u32 counters and a capacity that need not
\* be a power of two, for every number of pushes, those at which end wraps
\* past 2^32 included, historySize stays min(pushes, capacity) and
\* historyGetItem(i) yields the (i+1)-th oldest of the last historySize
\* snapshots pushed.
C23_CursorOverflow ==
  /\ historySize(history) = history.size
  /\ \A i \in 0..(history.size - 1) :
       /\ ItemFound(i)
       /\ ItemRead(i) = pushed[Len(pushed) - history.size + i + 1]
----------------------------------------------------------------------------
(* C24, under SpecLongRun *)

\* The newest entry that the History h retains.
NewestEntry(h) == HistoryEntry(h, historySize(h) - 1)

\* historySize is the number of field advances since gameCreate, up to the
\* capacity of the ring.
SizeFollowsAdvances ==
  historySize(history) = (IF ticks < GameHistorySize THEN ticks ELSE GameHistorySize)

\* A frame advances the field exactly when it pushes; the snapshot it pushes
\* is the field as the manual edit of the frame left it, the field after the
\* frame is one generation later than the newest entry, and a frame that
\* does not advance leaves the history alone and the field as edited.
PushThenAdvance ==
  call'.op = "gameUpdate" =>
    LET pre == Edited(field.current, field.stride, game.pause # call'.space,
                      call'.mouse, call'.click)
    IN  /\ (ticks' # ticks) <=> (Len(pushed') # Len(pushed))
        /\ ticks' # ticks =>
             /\ ticks' = ticks + 1
             /\ Len(pushed') = Len(pushed) + 1
             /\ NewestEntry(history') = pre
             /\ field'.current = OneGeneration(NewestEntry(history'), field.stride)
        /\ ticks' = ticks =>
             /\ field'.current = pre
             /\ history' = history

\* C24: push and advance are paired: the field is advanced only inside a tick
\* that pushed the pre-advance field immediately before, so historySize
\* equals min(number of field advances since gameCreate, capacity), and
\* immediately after every tick the current field equals the transition rule
\* applied to the newest history entry.
C24_PushAdvancePaired == [] SizeFollowsAdvances /\ [][PushThenAdvance]_vars

\* A frame has clicked a cell alive and stepped with the ring full: the ring
\* still holds its capacity, its newest entry has the clicked cell ALIVE and
\* the field is a generation on.
C24_Witness ==
  /\ call.op = "gameUpdate"
  /\ call.click
  /\ call.enter
  /\ ticks > GameHistorySize
  /\ historySize(history) = GameHistorySize
  /\ NewestEntry(history) # field.current
  /\ AliveCells([current |-> NewestEntry(history)]) # {}
----------------------------------------------------------------------------
(* C25, under SpecLongRun *)

\* Every entry that the ring retains is the snapshot that was pushed, as it
\* was when it was pushed.
EntriesAsPushed ==
  \A i \in 0..(historySize(history) - 1) :
    HistoryEntry(history, i) = pushed[Len(pushed) - historySize(history) + i + 1]

\* The slots of the block of h.
Slots(h) == 0..(h.size - 1)

\* The cells in physical slot number slot of h.
SlotCells(h, slot) == ItemCells(h, DataPtr(slot * h.elem_size))

\* A step changes the cells of a slot only when it pushes, and then only in
\* the slot that the push reuses.
SlotsChangeByPush ==
  \A slot \in Slots(history) :
    SlotCells(history', slot) # SlotCells(history, slot) =>
      /\ Len(pushed') = Len(pushed) + 1
      /\ slot = history.end % history.size

\* C25: a snapshot stored by historyPush is a copy: later fieldUpdate calls
\* and manual toggles of cells of the live field change no retained history
\* entry, and an entry changes only when a later push reuses its slot.
C25_SnapshotIsolation == [] EntriesAsPushed /\ [][SlotsChangeByPush]_vars

\* After a toggle and two ticks with the ring full, the entry before the
\* newest still has the toggled cell ALIVE, while the newest entry and the
\* field have each moved on.
C25_Witness ==
  /\ call.op = "gameUpdate"
  /\ edits > 0
  /\ Len(pushed) > GameHistorySize + 1
  /\ historySize(history) = GameHistorySize
  /\ AliveCells([current |-> HistoryEntry(history, GameHistorySize - 2)]) # {}
  /\ NewestEntry(history) # HistoryEntry(history, GameHistorySize - 2)
  /\ field.current # HistoryEntry(history, GameHistorySize - 2)
  /\ field.current # NewestEntry(history)
----------------------------------------------------------------------------
(* C26, C27, C28, under SpecGame *)

\* The pause flag of the frame just taken, after its toggle handling.
PausedAfterToggle == call.before.game.pause # call.space

\* Whether the frame just taken was due a tick, with the pause flag as the
\* toggle handling left it.
TickDue ==
  \/ PausedAfterToggle /\ call.enter
  \/ /\ ~ PausedAfterToggle
     /\ call.time - call.before.game.last_tick_at > call.before.game.seconds_per_tick

\* C26: editing is disabled while Running: in a frame that is Running after
\* the toggle handling, a click changes no cell, the selected coordinates are
\* not updated and selected is set to false; the only change to the field in
\* such a frame is a tick.
C26_NoEditWhileRunning ==
  (call.op = "gameUpdate" /\ ~ PausedAfterToggle) =>
    /\ ~ game.selected
    /\ game.x = call.before.game.x
    /\ game.y = call.before.game.y
    /\ field.current = IF TickDue
                       THEN OneGeneration(call.before.current, field.stride)
                       ELSE call.before.current

\* A frame has resumed the game with the button pressed over a cell other
\* than the selected one: the selection is dropped, the coordinates are the
\* old ones and the cell under the mouse is as it was.
C26_Witness ==
  /\ call.op = "gameUpdate"
  /\ ~ PausedAfterToggle
  /\ call.space
  /\ call.click
  /\ call.mouse.inside
  /\ call.before.game.selected
  /\ ~ game.selected
  /\ <<call.mouse.x, call.mouse.y>> # <<game.x, game.y>>
  /\ field.current = call.before.current

\* C27: at the end of every gameUpdate call, selected == true implies
\* pause == true.
C27_SelectedOnlyPaused == game.selected => game.pause

\* A frame has paused a running game with the mouse over a cell, which is
\* selected.
C27_Witness ==
  /\ call.op = "gameUpdate"
  /\ call.space
  /\ ~ call.before.game.pause
  /\ call.mouse.inside
  /\ game.selected
  /\ game.pause

\* C28: within a frame the toggle comes first, then the manual edit, then the
\* tick: when a click and the step key arrive in the same Paused frame, the
\* pushed snapshot and the advanced generation both include the edited cell,
\* and the tick condition is evaluated with the pause value after the toggle.
C28_OrderWithinFrame ==
  call.op = "gameUpdate" =>
    LET pre == Edited(call.before.current, field.stride, PausedAfterToggle,
                      call.mouse, call.click)
    IN  /\ game.pause = PausedAfterToggle
        /\ IF TickDue
           THEN /\ NewestEntry(history) = pre
                /\ field.current = OneGeneration(pre, field.stride)
                /\ game.last_tick_at = call.time
           ELSE /\ field.current = pre
                /\ game.last_tick_at = call.before.game.last_tick_at

\* A frame of the paused game has set a cell ALIVE and stepped: the snapshot
\* has the cell ALIVE and in the field it is DIYING.
C28_Witness ==
  /\ call.op = "gameUpdate"
  /\ call.enter /\ call.click /\ call.mouse.inside
  /\ PausedAfterToggle
  /\ LET i == TorusIndex(field.stride, call.mouse.x, call.mouse.y)
     IN  /\ call.before.current[i] # ALIVE
         /\ NewestEntry(history)[i] = ALIVE
         /\ field.current[i] = DIYING
----------------------------------------------------------------------------
(* SpecPointer: the frames of the game with the mouse position that
   GetMousePosition returns and its conversion to a cell.  Lengths on the
   screen are counted in thirds of a pixel, in which the width of the
   rectangle, min / 3.0f pixels, is a whole number. *)

\* DEFAULT_WIDHT and DEFALUT_HEIGHT, in pixels: the window of InitWindow.
ScreenSize == 1000

\* rect.x and rect.y, in pixels.
RectOrigin == 10

\* rect.x and rect.y, in thirds of a pixel.
RectX == 3 * RectOrigin

\* rect.width and rect.height, min / 3.0f pixels, in thirds of a pixel.
RectWidth == ScreenSize

\* CheckCollisionPointRec(pos, rect) along one axis, as raylib may answer:
\* its releases differ in whether the far edge belongs to the rectangle.
CheckCollisionPointRec_Always(p) == {TRUE}

CheckCollisionPointRec(p) ==
  IF p < RectX \/ p > RectX + RectWidth
  THEN {FALSE}
  ELSE IF p = RectX + RectWidth THEN {TRUE, FALSE} ELSE {TRUE}

\* i32 x = (pos.x - rect.x) / cell_width with cell_width = rect.width / stride:
\* the quotient is truncated toward zero.  Where the exact quotient is a whole
\* number above 0, the rounding of the f32 division decides between that
\* number and the one below it.
pointerCell(stride, p) ==
  LET num   == (p - RectX) * stride
      trunc == IF num >= 0 THEN num \div RectWidth ELSE 0 - ((0 - num) \div RectWidth)
  IN  IF num > 0 /\ num % RectWidth = 0 THEN {trunc - 1, trunc} ELSE {trunc}

\* What a frame can find the mouse doing, from the position of the pointer
\* (px, py): outside the rectangle, or inside it over the cell that the
\* position converts to.
PointerMouse(stride, px, py) ==
  LET hit == {bx /\ by : bx \in CheckCollisionPointRec(px),
                         by \in CheckCollisionPointRec(py)}
  IN  (IF FALSE \in hit THEN {[inside |-> FALSE, x |-> 0, y |-> 0]} ELSE {})
      \cup
      (IF TRUE \in hit
       THEN {[inside |-> TRUE, x |-> c[1], y |-> c[2]] :
               c \in pointerCell(stride, px) \X pointerCell(stride, py)}
       ELSE {})

\* Positions of the pointer along one axis: the corners of the window, and
\* the third of a pixel before and at each edge of the rectangle and of its
\* cells, and the one past its far edge.
PointerPositions(stride) ==
  {0, 3 * ScreenSize, RectX + RectWidth + 1}
  \cup {RectX + (k * RectWidth) \div stride - 1 : k \in 0..stride}
  \cup {RectX + (k * RectWidth) \div stride : k \in 0..stride}

\* The coordinates that fieldNext(field, x, y) passes to fieldCellIndex.
fieldNextCoords(x, y) ==
  {<<x + Offsets[k][1], y + Offsets[k][2]>> : k \in 1..8} \cup {<<x, y>>}

\* The coordinates that the loops of fieldUpdate pass, themselves and through
\* fieldNext.
fieldUpdateCoords(f) ==
  UNION {fieldNextCoords(x, y) : x \in 0..(f.stride - 1), y \in 0..(f.stride - 1)}

\* The branch on pause of gameUpdate: the cell under the mouse when the
\* button is pressed.
gameUpdateEditCoords(g, mouse, click) ==
  IF g.pause /\ mouse.inside /\ click THEN {<<mouse.x, mouse.y>>} ELSE {}

\* gameRender2D: every cell of the field, while the game is paused.
gameRender2DCoords(g, f) ==
  IF g.pause THEN (0..(f.stride - 1)) \X (0..(f.stride - 1)) ELSE {}

\* gameRender3D: every cell of the field, and every cell of each history
\* item, whose stride is that of the field.
gameRender3DCoords(f, h) == (0..(f.stride - 1)) \X (0..(f.stride - 1))

InitPointer ==
  /\ \E field_size \in 1..MaxPointerStride :
       /\ field = fieldInit(field_size)
       /\ history = historyCreate(field_size * field_size, GameHistorySize)
       /\ game = gameCreate(field_size, SecondsPerTick)
       /\ call = [op |-> "gameCreate", field_size |-> field_size,
                  seconds_per_tick |-> SecondsPerTick]
  /\ clock = 0
  /\ heap = Allocated
  /\ pc = "loop"
  /\ inputs = 0
  /\ status = "running"
  /\ pushed = <<>>
  /\ edits = 0
  /\ ticks = 0
  /\ everAlive = {}
  /\ NoProfile

\* What a frame can find the mouse doing, with the pointer at any of these
\* positions.
PointerMice(stride) ==
  UNION {PointerMouse(stride, px, py) :
           px \in PointerPositions(stride), py \in PointerPositions(stride)}

PointerFrame(space, enter, mouse, click, time) ==
  Frame(MaxPointerInputs, space, enter, mouse, click, time)

NextPointer ==
  \E mouse \in PointerMice(field.stride) :
  \E space \in BOOLEAN : \E enter \in BOOLEAN : \E click \in BOOLEAN :
  \E time \in clock..(clock + SecondsPerTick + 1) :
    PointerFrame(space, enter, mouse, click, time)

SpecPointer == InitPointer /\ [][NextPointer]_vars
----------------------------------------------------------------------------
(* C29, under SpecPointer *)

\* The coordinates that the frame just taken has passed to fieldCellIndex:
\* those of its edit, of its field advance and of its renders.
FrameCoords ==
  IF call.op = "gameUpdate"
  THEN gameUpdateEditCoords([pause |-> PausedAfterToggle], call.mouse, call.click)
         \cup (IF TickDue THEN fieldUpdateCoords(field) ELSE {})
         \cup gameRender3DCoords(field, history)
         \cup gameRender2DCoords(game, field)
  ELSE {}

\* C29: in every reachable state of the game loop (the field advance over all
\* cells, the 2D and 3D rendering of the field and of the history entries,
\* the mouse edits at pointer positions inside the rectangle), every
\* coordinate passed to fieldCellIndex lies in -1..stride and the bounds
\* assertion does not fire.
C29_CoordinatesInRange ==
  /\ status = "running"
  /\ \A c \in FrameCoords :
       /\ c[1] \in (0 - 1)..field.stride
       /\ c[2] \in (0 - 1)..field.stride
       /\ fieldCellIndex(field, c[1], c[2]) \in 0..(field.stride * field.stride - 1)

\* A frame of the paused game has had the button pressed with the pointer on
\* the far edge of the rectangle, has edited the cell at the coordinate
\* stride, which is the cell at 0, and has stepped.
C29_Witness ==
  /\ call.op = "gameUpdate"
  /\ call.click
  /\ call.enter
  /\ call.mouse.inside
  /\ call.mouse.x = field.stride
  /\ call.mouse.y = 0
  /\ PausedAfterToggle
  /\ NewestEntry(history)[0] = ALIVE
  /\ ticks = 1
----------------------------------------------------------------------------
(* C30, under SpecRule *)

\* The cells other than (x, y) itself that the eight wrapped neighbour
\* positions of (x, y) lead to, each of them once.
DistinctNeighbours(stride, x, y) ==
  {TorusIndex(stride, x + Offsets[k][1], y + Offsets[k][2]) : k \in 1..8}
    \ {TorusIndex(stride, x, y)}

\* C30: for every stride > 0, strides 1 and 2 included, the alive-neighbour
\* count that fieldNext computes for a cell is the number of distinct ALIVE
\* cells other than the cell itself among its wrapped Moore neighbours; the
\* state of the cell itself never contributes to its own count.
C30_DistinctAliveNeighbours ==
  call.op = "fieldNext" =>
    fieldNextAliveNeighbors(field, call.x, call.y)
      = Cardinality({i \in DistinctNeighbours(field.stride, call.x, call.y) :
                       field.current[i] = ALIVE})
----------------------------------------------------------------------------
(* C31, under SpecHistory *)

----------------------------------------------------------------------------
(* The profiling timers of types.h: SpecProfile *)

\* Calls of beginTimeProfile and endTimeProfile made after the first state.
MaxProfileCalls == 4

\* Milliseconds by which mstime() advances between two calls, at most.
MaxMstimeStep == 1

\* The program has made no call, or MAX_PROFILE_TIMERS - 1 nested
\* beginTimeProfile() calls, when the calls of the actions begin.
InitProfile ==
  /\ \E n \in {0, MAX_PROFILE_TIMERS - 1} :
       /\ profile = profileAfter(n)
       /\ call = [op |-> "profileAfter", n |-> n]
  /\ field = fieldInit(1)
  /\ history = NoHistory
  /\ status = "running"
  /\ pushed = <<>>
  /\ edits = 0
  /\ ticks = 0
  /\ everAlive = {}
  /\ NoGame

\* beginTimeProfile(), mstime() having advanced by step.
BeginTimeProfile(step) ==
  /\ Running
  /\ profile.calls < MaxProfileCalls
  /\ \E r \in beginTimeProfile(profile, profile.now + step) :
       /\ profile' = [r.p EXCEPT !.now = profile.now + step,
                                 !.calls = profile.calls + 1,
                                 !.open = IF r.crashed THEN profile.open
                                          ELSE Append(profile.open, profile.now + step)]
       /\ status' = IF r.crashed THEN "crashed" ELSE status
       /\ call' = [op |-> "beginTimeProfile", index |-> r.index,
                   crashed |-> r.crashed, unmatched |-> profile.open]
  /\ UNCHANGED <<field, history, pushed, edits, ticks, everAlive, gameVars>>

\* endTimeProfile(format, ...), mstime() having advanced by step.
EndTimeProfile(step) ==
  /\ Running
  /\ profile.calls < MaxProfileCalls
  /\ \E r \in endTimeProfile(profile, profile.now + step) :
       /\ profile' = [r.p EXCEPT !.now = profile.now + step,
                                 !.calls = profile.calls + 1,
                                 !.open = IF r.crashed \/ profile.open = <<>>
                                          THEN profile.open
                                          ELSE SubSeq(profile.open, 1,
                                                      Len(profile.open) - 1)]
       /\ status' = IF r.crashed THEN "crashed" ELSE status
       /\ call' = [op |-> "endTimeProfile", index |-> r.index,
                   start |-> r.start, elapsed |-> r.elapsed,
                   crashed |-> r.crashed, unmatched |-> profile.open]
  /\ UNCHANGED <<field, history, pushed, edits, ticks, everAlive, gameVars>>

NextProfile ==
  \E step \in 0 .. MaxMstimeStep :
    \/ BeginTimeProfile(step)
    \/ EndTimeProfile(step)

SpecProfile == InitProfile /\ [][NextProfile]_vars

\* Lemma: as long as every call since the start of the program has been a
\* beginTimeProfile() one millisecond after the call before, the state is the
\* one profileAfter gives.
ProfileAfterAgrees ==
  (/\ status = "running"
   /\ profile.calls = Len(profile.open)
   /\ profile.nprofiles = Len(profile.open)
   /\ profile.nprofiles <= MAX_PROFILE_TIMERS
   /\ \A i \in 1 .. Len(profile.open) : profile.open[i] = i - 1
   /\ profile.now = Len(profile.open) - 1)
    => [profile EXCEPT !.calls = 0] = profileAfter(Len(profile.open))
----------------------------------------------------------------------------
(* C32, under SpecProfile *)

\* C32: for any sequence of beginTimeProfile and endTimeProfile calls the
\* depth counter _nprofiles stays within 0 .. MAX_PROFILE_TIMERS, every access
\* to a timer uses an index inside the _timers array, and each endTimeProfile
\* reads the start time of the most recent unmatched beginTimeProfile.
C32_TimerStackInBounds ==
  /\ profile.nprofiles \in 0 .. MAX_PROFILE_TIMERS
  /\ call.op \in {"beginTimeProfile", "endTimeProfile"} =>
       timerInBounds(call.index)
  /\ call.op = "endTimeProfile" =>
       /\ call.unmatched # <<>>
       /\ call.start = call.unmatched[Len(call.unmatched)]
====
